---------------------------- MODULE Spec2Model ----------------------------
(* A model of agent-notifier's Rust core (src-tauri/src/lib.rs): the       *)
(* settings-update command, the listener restart, the listener tasks, the  *)
(* ListeningGate and the HTTP handlers.                                    *)
EXTENDS Integers, Sequences, FiniteSets, TLC

(***************************************************************************)
(* Bounds of the model.                                                    *)
(***************************************************************************)
\* save_http_bindings calls issued in one behaviour
MaxCalls == 2

(***************************************************************************)
(* Strings are sequences of characters; " " stands for any whitespace.     *)
(***************************************************************************)
IsWs(c) == c = " "

\* str::trim_start
RECURSIVE TrimStart(_)
TrimStart(s) ==
    IF s = <<>> THEN s
    ELSE IF IsWs(Head(s)) THEN TrimStart(Tail(s))
    ELSE s

\* str::trim_end
RECURSIVE TrimEnd(_)
TrimEnd(s) ==
    IF s = <<>> THEN s
    ELSE IF IsWs(s[Len(s)]) THEN TrimEnd(SubSeq(s, 1, Len(s) - 1))
    ELSE s

\* str::trim: drop leading and trailing whitespace
Trim(s) == TrimEnd(TrimStart(s))

\* a character that takes three bytes in UTF-8
Euro == "EURO SIGN"

\* str::len, the length in bytes, against chars().count(), which is Len
ByteLen(s) == Len(s) + 2 * Cardinality({i \in DOMAIN s : s[i] = Euro})

(***************************************************************************)
(* HttpSettings and the Settings Store.                                    *)
(***************************************************************************)
Loopback == <<"1", "2", "7", ".", "0", ".", "0", ".", "1">>
AnyAddr == <<"0", ".", "0", ".", "0", ".", "0">>
DefaultPort == 60766

HttpSettings(a, p) == [bind_address |-> a, port |-> p]

\* impl Default for HttpSettings
DefaultHttpSettings == HttpSettings(Loopback, DefaultPort)

BindingA == HttpSettings(Loopback, 8080)
BindingB == HttpSettings(AnyAddr, DefaultPort)

\* values a caller passes to save_http_bindings: two valid ones, an empty and
\* a whitespace-only address, and port 0
SaveInputs ==
    {BindingA, BindingB, HttpSettings(<<>>, 8080),
     HttpSettings(<<" ">>, 8080), HttpSettings(Loopback, 0)}

\* validate_http_settings: TRUE iff it returns Ok
validate_http_settings(s) ==
    IF Trim(s.bind_address) = <<>> THEN FALSE
    ELSE IF s.port = 0 THEN FALSE
    ELSE TRUE

\* what the store file holds under "httpBindings": nothing, a value that
\* does not deserialize, or a binding
StoreAbsent == [kind |-> "absent"]
StoreCorrupt == [kind |-> "corrupt"]
Stored(s) == [kind |-> "binding", value |-> s]

\* load_http_settings
load_http_settings(st) ==
    IF st.kind = "binding" THEN st.value ELSE DefaultHttpSettings

(***************************************************************************)
(* serde_json::Value.  None is Option::None, what Value::get gives for a   *)
(* missing key or a value that is no object.                               *)
(***************************************************************************)
None == [kind |-> "none"]
JNull == [kind |-> "null"]
JNum(n) == [kind |-> "number", val |-> n]
JBool(b) == [kind |-> "bool", val |-> b]
JStr(str) == [kind |-> "string", val |-> str]
JArr(items) == [kind |-> "array", items |-> items]
\* an object is a function from its keys to their values
JObj(f) == [kind |-> "object", fields |-> f]

\* a string literal of the source, kept whole
Lit(x) == <<x>>

\* Value::get(key)
Get(v, key) ==
    IF v.kind = "object" /\ key \in DOMAIN v.fields THEN v.fields[key] ELSE None

\* Option::and_then(Value::as_object) is Some
IsObject(o) == o.kind = "object"

\* Option::and_then(Value::as_str) is Some
IsStr(o) == o.kind = "string"

\* .and_then(Value::as_str).unwrap_or_default()
StrOrDefault(o) == IF IsStr(o) THEN o.val ELSE <<>>

(***************************************************************************)
(* Validator and Dispatcher.                                               *)
(***************************************************************************)
MCP_PROTOCOL_VERSION == Lit("2025-11-25")
MAX_NOTIFICATION_BODY_CHARS == 1000
SOFT_CONTENT_LIMIT_CHARS == 950

\* a cut one character late
take_one_more(str, n) == IF Len(str) <= n + 1 THEN str ELSE SubSeq(str, 1, n + 1)

\* s.chars().take(n).collect()
Take(str, n) == IF Len(str) <= n THEN str ELSE SubSeq(str, 1, n)

\* what the handler did, in order (history)
Ev(e) == [ev |-> e, title |-> <<>>, body |-> <<>>, ok |-> TRUE]
\* a call of the Notifier's show() and whether it answered Ok
ShowEv(title, body, ok) == [ev |-> "show", title |-> title, body |-> body, ok |-> ok]
\* eprintln!("{err}"): the text written to the log
LogEv(text) == [ev |-> "log", title |-> <<>>, body |-> text, ok |-> TRUE]

\* validate_notification_fields without its length check
validate_no_limit(title, content, agent) ==
    LET t == Trim(title)
        c == Trim(content)
        a == Trim(agent)
    IN  IF t = <<>> \/ c = <<>> \/ a = <<>>
        THEN [ok |-> FALSE, err |-> "required",
              title |-> <<>>, content |-> <<>>, agent |-> <<>>]
        ELSE [ok |-> TRUE, err |-> "",
              title |-> t, content |-> c, agent |-> a]

\* a Validator that measures the content in bytes (content.len())
validate_byte_limit(title, content, agent) ==
    LET t == Trim(title)
        c == Trim(content)
        a == Trim(agent)
    IN  IF t = <<>> \/ c = <<>> \/ a = <<>>
        THEN [ok |-> FALSE, err |-> "required",
              title |-> <<>>, content |-> <<>>, agent |-> <<>>]
        ELSE IF ByteLen(c) > SOFT_CONTENT_LIMIT_CHARS
        THEN [ok |-> FALSE, err |-> "too long",
              title |-> <<>>, content |-> <<>>, agent |-> <<>>]
        ELSE [ok |-> TRUE, err |-> "",
              title |-> t, content |-> c, agent |-> a]

\* a Validator that checks the trimmed fields and returns the fields as
\* they came
validate_returns_untrimmed(title, content, agent) ==
    LET t == Trim(title)
        c == Trim(content)
        a == Trim(agent)
    IN  IF t = <<>> \/ c = <<>> \/ a = <<>>
        THEN [ok |-> FALSE, err |-> "required",
              title |-> <<>>, content |-> <<>>, agent |-> <<>>]
        ELSE IF Len(c) > SOFT_CONTENT_LIMIT_CHARS
        THEN [ok |-> FALSE, err |-> "too long",
              title |-> <<>>, content |-> <<>>, agent |-> <<>>]
        ELSE [ok |-> TRUE, err |-> "",
              title |-> title, content |-> content, agent |-> agent]

\* validate_notification_fields
validate_notification_fields(title, content, agent) ==
    LET t == Trim(title)
        c == Trim(content)
        a == Trim(agent)
    IN  IF t = <<>> \/ c = <<>> \/ a = <<>>
        THEN [ok |-> FALSE, err |-> "required",
              title |-> <<>>, content |-> <<>>, agent |-> <<>>]
        ELSE IF Len(c) > SOFT_CONTENT_LIMIT_CHARS
        THEN [ok |-> FALSE, err |-> "too long",
              title |-> <<>>, content |-> <<>>, agent |-> <<>>]
        ELSE [ok |-> TRUE, err |-> "",
              title |-> t, content |-> c, agent |-> a]

\* the Notifier collaborator's answer to show(): Ok, or Err with some text
ShowOk == [ok |-> TRUE, err |-> <<>>]
ShowErr(text) == [ok |-> FALSE, err |-> text]
ShowOutcomes == {ShowOk, ShowErr(Lit("denied")), ShowErr(Lit("no backend"))}

\* play_notification_sound: nothing when AGENT_NOTIFIER_DISABLE_SOUND is
\* set, else the playback is handed to spawn_blocking
play_notification_sound(sound_disabled) ==
    IF sound_disabled THEN <<>> ELSE <<Ev("sound")>>

\* a Dispatcher that schedules the sound before it calls show()
dispatch_sound_first(title, content, agent, shown, sound_disabled) ==
    LET body == agent \o <<":", " ">> \o content
        limited_content == Take(body, MAX_NOTIFICATION_BODY_CHARS)
        show == ShowEv(title, limited_content, shown.ok)
    IN  IF ~shown.ok
        THEN [ok |-> FALSE,
              err |-> Lit("Failed to dispatch notification: ") \o shown.err,
              trace |-> play_notification_sound(sound_disabled) \o <<show>>]
        ELSE [ok |-> TRUE, err |-> <<>>,
              trace |-> play_notification_sound(sound_disabled) \o <<show>>]

\* dispatch_notification: the body is built and cut, show() is called with
\* it, and only after an Ok is the sound scheduled
dispatch_notification(title, content, agent, shown, sound_disabled) ==
    LET body == agent \o <<":", " ">> \o content
        limited_content == Take(body, MAX_NOTIFICATION_BODY_CHARS)
        show == ShowEv(title, limited_content, shown.ok)
    IN  IF ~shown.ok
        THEN [ok |-> FALSE,
              err |-> Lit("Failed to dispatch notification: ") \o shown.err,
              trace |-> <<show>>]
        ELSE [ok |-> TRUE, err |-> <<>>,
              trace |-> <<show>> \o play_notification_sound(sound_disabled)]

(***************************************************************************)
(* Responses.                                                              *)
(***************************************************************************)
SERVICE_UNAVAILABLE == 503
BAD_REQUEST == 400
INTERNAL_SERVER_ERROR == 500
OK == 200
ACCEPTED == 202

Response(status, body) == [status |-> status, body |-> body]
Message(text) == [message |-> text]
Empty == [empty |-> TRUE]

NotListening == Response(SERVICE_UNAVAILABLE, Message("Server is not listening"))

\* notify_tool_descriptor
notify_tool_descriptor ==
    [name |-> "notify",
     inputSchema |->
       [type |-> "object",
        properties |->
          [title |-> [type |-> "string", minLength |-> 1],
           content |-> [type |-> "string", minLength |-> 1,
                        maxLength |-> SOFT_CONTENT_LIMIT_CHARS],
           agent |-> [type |-> "string", minLength |-> 1]],
        required |-> <<"title", "content", "agent">>,
        additionalProperties |-> FALSE]]

\* a result envelope that does not echo the id
jsonrpc_success_null_id(id, result) ==
    [jsonrpc |-> "2.0", id |-> JNull, result |-> result]

\* jsonrpc_success
jsonrpc_success(id, result) ==
    [jsonrpc |-> "2.0", id |-> id, result |-> result]

\* an error envelope that leaves out the id it was not given, where
\* jsonrpc_error writes null
jsonrpc_error_no_null(id, code, message) ==
    [jsonrpc |-> "2.0", id |-> id,
     error |-> [code |-> code, message |-> message]]

\* jsonrpc_error; id is an Option<Value>
jsonrpc_error(id, code, message) ==
    [jsonrpc |-> "2.0", id |-> IF id = None THEN JNull ELSE id,
     error |-> [code |-> code, message |-> message]]

\* what a handler gives back: its response and what it did on the way
Outcome(resp, trace) == [resp |-> resp, trace |-> trace]

(***************************************************************************)
(* The handlers, past their gate check.  shown is what the Notifier        *)
(* answers if show() is called, sound_disabled whether the environment     *)
(* variable is set.                                                        *)
(***************************************************************************)
\* a notify_handler that answers a failed dispatch with the error it got
notify_handler_error_in_reply(payload, shown, sound_disabled) ==
    LET title == Trim(payload.title)
        content == Trim(payload.content)
        agent == Trim(payload.agent)
    IN  IF title = <<>> \/ content = <<>> \/ agent = <<>>
        THEN Outcome(Response(BAD_REQUEST,
                              Message("'title', 'content', and 'agent' are required")),
                     <<Ev("validate")>>)
        ELSE LET d == dispatch_notification(title, content, agent, shown, sound_disabled)
             IN  IF ~d.ok
                 THEN Outcome(Response(INTERNAL_SERVER_ERROR, Message(d.err)),
                              <<Ev("validate")>> \o d.trace \o <<LogEv(d.err)>>)
                 ELSE Outcome(Response(OK, Message("Notification dispatched")),
                              <<Ev("validate")>> \o d.trace)

\* a notify_handler that hands the payload to the Validator, cap included
notify_handler_validated(payload, shown, sound_disabled) ==
    LET v == validate_notification_fields(payload.title, payload.content, payload.agent)
    IN  IF ~v.ok
        THEN Outcome(Response(BAD_REQUEST,
                              Message("'title', 'content', and 'agent' are required")),
                     <<Ev("validate")>>)
        ELSE LET d == dispatch_notification(v.title, v.content, v.agent, shown, sound_disabled)
             IN  IF ~d.ok
                 THEN Outcome(Response(INTERNAL_SERVER_ERROR,
                                       Message("Failed to dispatch notification")),
                              <<Ev("validate")>> \o d.trace \o <<LogEv(d.err)>>)
                 ELSE Outcome(Response(OK, Message("Notification dispatched")),
                              <<Ev("validate")>> \o d.trace)

\* notify_handler, from the trim of the payload on
notify_handler(payload, shown, sound_disabled) ==
    LET title == Trim(payload.title)
        content == Trim(payload.content)
        agent == Trim(payload.agent)
    IN  IF title = <<>> \/ content = <<>> \/ agent = <<>>
        THEN Outcome(Response(BAD_REQUEST,
                              Message("'title', 'content', and 'agent' are required")),
                     <<Ev("validate")>>)
        ELSE LET d == dispatch_notification(title, content, agent, shown, sound_disabled)
             IN  IF ~d.ok
                 THEN Outcome(Response(INTERNAL_SERVER_ERROR,
                                       Message("Failed to dispatch notification")),
                              <<Ev("validate")>> \o d.trace \o <<LogEv(d.err)>>)
                 ELSE Outcome(Response(OK, Message("Notification dispatched")),
                              <<Ev("validate")>> \o d.trace)

\* the "tools/call" arm with the arguments looked at before the tool name
tools_call_args_first(id, params, shown, sound_disabled) ==
    IF ~IsObject(params)
    THEN Outcome(Response(OK, jsonrpc_error(id, -32602, "Invalid params: expected object")),
                 <<>>)
    ELSE IF ~IsObject(Get(params, "arguments"))
    THEN Outcome(Response(OK, jsonrpc_error(id, -32602,
                              "Invalid params: 'arguments' must be an object")),
                 <<>>)
    ELSE IF ~IsStr(Get(params, "name"))
    THEN Outcome(Response(OK, jsonrpc_error(id, -32602, "Invalid params: missing tool name")),
                 <<>>)
    ELSE Outcome(Response(OK, jsonrpc_error(id, -32601, "Tool not found")), <<>>)

\* the "tools/call" arm of mcp_post_handler
tools_call(id, params, shown, sound_disabled) ==
    IF ~IsObject(params)
    THEN Outcome(Response(OK, jsonrpc_error(id, -32602, "Invalid params: expected object")),
                 <<>>)
    ELSE IF ~IsStr(Get(params, "name"))
    THEN Outcome(Response(OK, jsonrpc_error(id, -32602, "Invalid params: missing tool name")),
                 <<>>)
    ELSE IF Get(params, "name").val # Lit("notify")
    THEN Outcome(Response(OK, jsonrpc_error(id, -32601, "Tool not found")), <<>>)
    ELSE IF ~IsObject(Get(params, "arguments"))
    THEN Outcome(Response(OK, jsonrpc_error(id, -32602,
                              "Invalid params: 'arguments' must be an object")),
                 <<>>)
    ELSE
      LET arguments == Get(params, "arguments")
          v == validate_notification_fields(StrOrDefault(Get(arguments, "title")),
                                            StrOrDefault(Get(arguments, "content")),
                                            StrOrDefault(Get(arguments, "agent")))
      IN  IF ~v.ok
          THEN Outcome(Response(OK, jsonrpc_error(id, -32602,
                 "Invalid params: 'title', 'content', and 'agent' are required and must be within limits")),
                       <<Ev("validate")>>)
          ELSE
            LET d == dispatch_notification(v.title, v.content, v.agent, shown, sound_disabled)
            IN  IF ~d.ok
                THEN Outcome(Response(OK, jsonrpc_error(id, -32000,
                                          "Failed to dispatch notification")),
                             <<Ev("validate")>> \o d.trace \o <<LogEv(d.err)>>)
                ELSE Outcome(Response(OK, jsonrpc_success(id,
                               [content |-> <<[type |-> "text",
                                               text |-> Lit("Notification sent: ") \o v.title]>>,
                                isError |-> FALSE])),
                             <<Ev("validate")>> \o d.trace)

\* a POST /mcp handler that looks at the type of "method" before it looks
\* for "id"
mcp_post_method_type_first(body, shown, sound_disabled) ==
    IF Get(body, "method") = None
    THEN Outcome(Response(ACCEPTED, Empty), <<Ev("method")>>)
    ELSE IF ~IsStr(Get(body, "method"))
    THEN Outcome(Response(OK, jsonrpc_error(None, -32600,
                              "Invalid request: method must be a string")),
                 <<Ev("method")>>)
    ELSE IF Get(body, "id") = None
    THEN Outcome(Response(ACCEPTED, Empty), <<Ev("method")>>)
    ELSE
      LET method == Get(body, "method").val
          id == Get(body, "id")
          params == Get(body, "params")
      IN  IF method = Lit("initialize")
          THEN Outcome(Response(OK, jsonrpc_success(id,
                         [protocolVersion |-> MCP_PROTOCOL_VERSION,
                          serverInfo |-> [name |-> "agent-notifications",
                                          version |-> "CARGO_PKG_VERSION"],
                          capabilities |-> [tools |-> [listChanged |-> FALSE]]])),
                       <<Ev("method")>>)
          ELSE IF method = Lit("tools/list")
          THEN Outcome(Response(OK, jsonrpc_success(id,
                         [tools |-> <<notify_tool_descriptor>>,
                          nextCursor |-> JNull])),
                       <<Ev("method")>>)
          ELSE IF method = Lit("tools/call")
          THEN LET r == tools_call(id, params, shown, sound_disabled)
               IN  Outcome(r.resp, <<Ev("method")>> \o r.trace)
          ELSE Outcome(Response(OK, jsonrpc_error(id, -32601, "Method not found")),
                       <<Ev("method")>>)

\* mcp_post_handler, from the look at "method" on
mcp_post_handler(body, shown, sound_disabled) ==
    IF Get(body, "method") = None
    THEN Outcome(Response(ACCEPTED, Empty), <<Ev("method")>>)
    ELSE IF Get(body, "id") = None
    THEN Outcome(Response(ACCEPTED, Empty), <<Ev("method")>>)
    ELSE IF ~IsStr(Get(body, "method"))
    THEN Outcome(Response(OK, jsonrpc_error(None, -32600,
                              "Invalid request: method must be a string")),
                 <<Ev("method")>>)
    ELSE
      LET method == Get(body, "method").val
          id == Get(body, "id")
          params == Get(body, "params")
      IN  IF method = Lit("initialize")
          THEN Outcome(Response(OK, jsonrpc_success(id,
                         [protocolVersion |-> MCP_PROTOCOL_VERSION,
                          serverInfo |-> [name |-> "agent-notifications",
                                          version |-> "CARGO_PKG_VERSION"],
                          capabilities |-> [tools |-> [listChanged |-> FALSE]]])),
                       <<Ev("method")>>)
          ELSE IF method = Lit("tools/list")
          THEN Outcome(Response(OK, jsonrpc_success(id,
                         [tools |-> <<notify_tool_descriptor>>,
                          nextCursor |-> JNull])),
                       <<Ev("method")>>)
          ELSE IF method = Lit("tools/call")
          THEN LET r == tools_call(id, params, shown, sound_disabled)
               IN  Outcome(r.resp, <<Ev("method")>> \o r.trace)
          ELSE Outcome(Response(OK, jsonrpc_error(id, -32601, "Method not found")),
                       <<Ev("method")>>)

\* mcp_get_handler, past its gate check: the keep-alive stream
mcp_get_handler ==
    Outcome(Response(OK, [sse |-> "keep-alive", interval_secs |-> 25]), <<>>)

(***************************************************************************)
(* The requests the handlers are given.                                    *)
(***************************************************************************)
\* n times the character c
Rep(c, n) == [i \in 1..n |-> c]

\* an object of the keys of f whose value is not None
MkObj(f) == JObj([k \in {x \in DOMAIN f : f[x] # None} |-> f[k]])

TitleStrings == {<<>>, <<" ">>, <<"T">>, <<" ", "T", " ">>}
AgentStrings == {<<>>, <<"A">>, <<" ", "A">>}
ContentStrings ==
    {<<" ">>, <<"C", " ">>,
     Rep("C", SOFT_CONTENT_LIMIT_CHARS), Rep("C", SOFT_CONTENT_LIMIT_CHARS + 1),
     Rep(Euro, SOFT_CONTENT_LIMIT_CHARS), Rep(Euro, MAX_NOTIFICATION_BODY_CHARS),
     Rep("C", SOFT_CONTENT_LIMIT_CHARS) \o <<" ">>}

\* Json<NotifyRequest>: the extractor has already required three strings
NotifyRequests ==
    {[route |-> "POST /agent/notify",
      body |-> [title |-> t, content |-> c, agent |-> a]] :
        t \in TitleStrings, c \in ContentStrings, a \in AgentStrings}

\* a key may be missing, hold a value that is no string, or hold a string
TitleValues == {None, JNum(1), JStr(<<" ">>), JStr(<<" ", "T", " ">>)}
ContentValues == {None, JBool(TRUE)} \cup {JStr(c) : c \in ContentStrings}
AgentValues == {None, JStr(<<>>), JStr(<<"A">>), JStr(<<" ", "A">>)}

ArgumentsValues ==
    {None, JArr(<<>>)} \cup
    {MkObj([title |-> t, content |-> c, agent |-> a]) :
        t \in TitleValues, c \in ContentValues, a \in AgentValues}

NameValues == {None, JNum(5), JStr(Lit("notify")), JStr(Lit("other"))}

ParamsValues ==
    {None, JStr(Lit("notify"))} \cup
    {MkObj([name |-> n, arguments |-> a]) : n \in NameValues, a \in ArgumentsValues}

GoodParams ==
    MkObj([name |-> JStr(Lit("notify")),
           arguments |-> MkObj([title |-> JStr(<<"T">>), content |-> JStr(<<"C">>),
                                agent |-> JStr(<<"A">>)])])

IdValues == {None, JNull, JNum(1)}

OtherMethodValues ==
    {None, JNum(7), JStr(Lit("initialize")), JStr(Lit("tools/list")), JStr(Lit("ping"))}

\* Json<Value>: any JSON document.  Every shape of params is tried with
\* tools/call, the only method that reads them.
McpBodies ==
    {JArr(<<>>)} \cup
    {MkObj([method |-> JStr(Lit("tools/call")), id |-> i, params |-> q]) :
        i \in IdValues, q \in ParamsValues} \cup
    {MkObj([method |-> m, id |-> i, params |-> q]) :
        m \in OtherMethodValues, i \in IdValues, q \in {None, GoodParams}}

McpRequests == {[route |-> "POST /mcp", body |-> b] : b \in McpBodies}

GetRequest == [route |-> "GET /mcp", body |-> Empty]

AllRequests == NotifyRequests \cup McpRequests \cup {GetRequest}

\* one request of each route, for the runs about the listener
ProbeRequests ==
    {GetRequest,
     [route |-> "POST /agent/notify",
      body |-> [title |-> <<"T">>, content |-> <<"C">>, agent |-> <<"A">>]],
     [route |-> "POST /mcp",
      body |-> MkObj([method |-> JStr(Lit("tools/call")), id |-> JNum(1),
                      params |-> GoodParams])]}

(***************************************************************************)
(* State.                                                                  *)
(***************************************************************************)
Callers == {"c1", "c2"}

VARIABLES
    listening,      \* ManagedState.listening / AppState.listening (the gate)
    settings,       \* ManagedState.settings (behind the RwLock)
    store,          \* the persisted value of the Settings Store
    server_task,    \* ManagedState.server_task: 0 (None) or a task id
    mutex,          \* who holds the server_task mutex: "free" or a caller
    tasks,          \* every listener task spawned so far, by id
    pc,             \* each save_http_bindings caller's position
    arg,            \* each caller's `settings` argument
    local,          \* restart_http_server's local `settings` clone
    ret,            \* the result of each caller's latest call
    calls,          \* calls issued so far
    taken,          \* history: the handle the latest restart took from the slot
    hpc,            \* the request handler's position: "idle", "run" or "done"
    hreq,           \* the request being handled
    hresp,          \* the response the handler returned
    htrace,         \* history: what the handler did for this request, in order
    initialized     \* history: an earlier "initialize" request got its result

lvars == <<settings, store, server_task, mutex, tasks, pc, arg, local, ret, calls, taken>>
hvars == <<hpc, hreq, hresp, htrace, initialized>>
vars == <<listening, lvars, hvars>>

NoSettings == [none |-> TRUE]
NoRequest == [route |-> "none"]
NoResponse == [status |-> 0]

\* a task as spawn_http_server creates it: not yet polled, not aborted.
\* prev is the handle the restart took from the slot before spawning it and
\* prevServing whether that one held its socket then (both history only).
NewTask(s, prev, prevServing) ==
    [binding |-> s, status |-> "spawned", aborted |-> FALSE,
     prev |-> prev, prevServing |-> prevServing]

TaskIds == 1..Len(tasks)

\* the listener tasks that hold a bound socket
Bound == {t \in TaskIds : tasks[t].status = "serving"}

\* run(): the gate starts open, the settings are loaded from the store, the
\* first listener is spawned with them and its handle stored
Init ==
    /\ listening = TRUE
    /\ store \in {StoreAbsent, StoreCorrupt, Stored(BindingA),
                   Stored(HttpSettings(<<>>, 0))}
    /\ settings = load_http_settings(store)
    /\ tasks = <<NewTask(settings, 0, FALSE)>>
    /\ server_task = 1
    /\ mutex = "free"
    /\ pc = [p \in Callers |-> "idle"]
    /\ arg = [p \in Callers |-> NoSettings]
    /\ local = [p \in Callers |-> NoSettings]
    /\ ret = [p \in Callers |-> "none"]
    /\ calls = 0
    /\ taken = [id |-> 0, serving |-> FALSE]
    /\ hpc = "idle"
    /\ hreq = NoRequest
    /\ hresp = NoResponse
    /\ htrace = <<>>
    /\ initialized = FALSE

(***************************************************************************)
(* save_http_bindings, one action per step between its suspension points.  *)
(***************************************************************************)
\* the command is invoked; validate_http_settings(&settings)?
SaveCall(p) ==
    /\ pc[p] = "idle"
    /\ calls < MaxCalls
    /\ calls' = calls + 1
    /\ \E s \in SaveInputs :
         IF validate_http_settings(s)
         THEN /\ pc' = [pc EXCEPT ![p] = "write"]
              /\ arg' = [arg EXCEPT ![p] = s]
              /\ ret' = [ret EXCEPT ![p] = "none"]
         ELSE /\ ret' = [ret EXCEPT ![p] = "Err"]
              /\ UNCHANGED <<pc, arg>>
    /\ UNCHANGED <<listening, settings, store, server_task, mutex, tasks, local, taken, hvars>>

\* { let mut guard = state.settings.write().await; *guard = settings.clone(); }
SaveWrite(p) ==
    /\ pc[p] = "write"
    /\ settings' = arg[p]
    /\ pc' = [pc EXCEPT ![p] = "persist"]
    /\ UNCHANGED <<listening, store, server_task, mutex, tasks, arg, local, ret, calls, taken, hvars>>

\* persist_http_settings(&app, &settings)? when the store saves
PersistOk(p) ==
    /\ pc[p] = "persist"
    /\ store' = Stored(arg[p])
    /\ pc' = [pc EXCEPT ![p] = "restart"]
    /\ UNCHANGED <<listening, settings, server_task, mutex, tasks, arg, local, ret, calls, taken, hvars>>

\* a failing persist that also puts the persisted value back in memory
PersistErrRollback(p) ==
    /\ pc[p] = "persist"
    /\ pc' = [pc EXCEPT ![p] = "idle"]
    /\ ret' = [ret EXCEPT ![p] = "Err"]
    /\ arg' = [arg EXCEPT ![p] = NoSettings]
    /\ settings' = load_http_settings(store)
    /\ UNCHANGED <<listening, store, server_task, mutex, tasks, local, calls, taken, hvars>>

\* persist_http_settings(&app, &settings)? when opening, serializing or
\* saving fails: the command returns the error
PersistErr(p) ==
    /\ pc[p] = "persist"
    /\ pc' = [pc EXCEPT ![p] = "idle"]
    /\ ret' = [ret EXCEPT ![p] = "Err"]
    /\ arg' = [arg EXCEPT ![p] = NoSettings]
    /\ UNCHANGED <<listening, settings, store, server_task, mutex, tasks, local, calls, taken, hvars>>

(***************************************************************************)
(* restart_http_server.                                                    *)
(***************************************************************************)
\* let settings = { managed.settings.read().await.clone() };
RestartRead(p) ==
    /\ pc[p] = "restart"
    /\ local' = [local EXCEPT ![p] = settings]
    /\ pc' = [pc EXCEPT ![p] = "lock"]
    /\ UNCHANGED <<listening, settings, store, server_task, mutex, tasks, arg, ret, calls, taken, hvars>>

\* a restart that goes on without waiting for the mutex
RestartLockNoWait(p) ==
    /\ pc[p] = "lock"
    /\ mutex' = p
    /\ pc' = [pc EXCEPT ![p] = "abort"]
    /\ UNCHANGED <<listening, settings, store, server_task, tasks, arg, local, ret, calls, taken, hvars>>

\* let mut guard = managed.server_task.lock().await;
RestartLock(p) ==
    /\ pc[p] = "lock"
    /\ mutex = "free"
    /\ mutex' = p
    /\ pc' = [pc EXCEPT ![p] = "abort"]
    /\ UNCHANGED <<listening, settings, store, server_task, tasks, arg, local, ret, calls, taken, hvars>>

\* a restart that takes the old handle out of the slot and drops it unaborted
RestartTakeOnly(p) ==
    /\ pc[p] = "abort"
    /\ server_task' = 0
    /\ taken' = [id |-> server_task,
                  serving |-> server_task # 0 /\ tasks[server_task].status = "serving"]
    /\ pc' = [pc EXCEPT ![p] = "spawn"]
    /\ UNCHANGED <<listening, settings, store, mutex, tasks, arg, local, ret, calls, hvars>>

\* if let Some(handle) = guard.take() { handle.abort(); }
\* abort() only requests the cancellation; the runtime carries it out later
RestartAbort(p) ==
    /\ pc[p] = "abort"
    /\ server_task' = 0
    /\ tasks' = IF server_task = 0 THEN tasks
                ELSE [tasks EXCEPT ![server_task].aborted = TRUE]
    /\ taken' = [id |-> server_task,
                  serving |-> server_task # 0 /\ tasks[server_task].status = "serving"]
    /\ pc' = [pc EXCEPT ![p] = "spawn"]
    /\ UNCHANGED <<listening, settings, store, mutex, arg, local, ret, calls, hvars>>

\* *guard = Some(spawn_http_server(app.clone(), managed.listening.clone(), settings));
RestartSpawn(p) ==
    /\ pc[p] = "spawn"
    /\ tasks' = Append(tasks, NewTask(local[p], taken.id, taken.serving))
    /\ server_task' = Len(tasks) + 1
    /\ pc' = [pc EXCEPT ![p] = "unlock"]
    /\ UNCHANGED <<listening, settings, store, mutex, arg, local, ret, calls, taken, hvars>>

\* Ok(()): the guard is dropped and the command returns
RestartReturn(p) ==
    /\ pc[p] = "unlock"
    /\ mutex' = "free"
    /\ pc' = [pc EXCEPT ![p] = "idle"]
    /\ ret' = [ret EXCEPT ![p] = "Ok"]
    /\ arg' = [arg EXCEPT ![p] = NoSettings]
    /\ local' = [local EXCEPT ![p] = NoSettings]
    /\ UNCHANGED <<listening, settings, store, server_task, tasks, calls, taken, hvars>>

(***************************************************************************)
(* The listener task spawn_http_server creates, as the runtime runs it.    *)
(***************************************************************************)
\* two bindings that cannot both be bound: the same port on the same
\* address, or on the wildcard address
AddrInUse(s1, s2) ==
    /\ s1.port = s2.port
    /\ \/ s1.bind_address = s2.bind_address
       \/ AnyAddr \in {s1.bind_address, s2.bind_address}

\* TcpListener::bind(&bind_addr).await gives Ok(listener): the task goes on
\* to axum::serve
BindOk(t) ==
    /\ tasks[t].status = "spawned"
    /\ ~tasks[t].aborted
    /\ \A u \in Bound : ~AddrInUse(tasks[u].binding, tasks[t].binding)
    /\ tasks' = [tasks EXCEPT ![t].status = "serving"]
    /\ UNCHANGED <<listening, settings, store, server_task, mutex, pc, arg, local, ret, calls, taken, hvars>>

\* a failed bind that leaves the task to try again
BindErrRetry(t) ==
    /\ tasks[t].status = "spawned"
    /\ ~tasks[t].aborted
    /\ tasks' = Append([tasks EXCEPT ![t].status = "bind_failed"],
                       [binding |-> tasks[t].binding, status |-> "spawned", aborted |-> FALSE,
                        prev |-> tasks[t].prev, prevServing |-> tasks[t].prevServing])
    /\ Len(tasks) < 8
    /\ UNCHANGED <<listening, settings, store, server_task, mutex, pc, arg, local, ret, calls, taken, hvars>>

\* TcpListener::bind gives Err: eprintln! and return, the task is over
BindErr(t) ==
    /\ tasks[t].status = "spawned"
    /\ ~tasks[t].aborted
    /\ tasks' = [tasks EXCEPT ![t].status = "bind_failed"]
    /\ UNCHANGED <<listening, settings, store, server_task, mutex, pc, arg, local, ret, calls, taken, hvars>>

\* axum::serve(listener, router).await gives Err: eprintln!, the task is over
ServeErr(t) ==
    /\ tasks[t].status = "serving"
    /\ ~tasks[t].aborted
    /\ tasks' = [tasks EXCEPT ![t].status = "serve_failed"]
    /\ UNCHANGED <<listening, settings, store, server_task, mutex, pc, arg, local, ret, calls, taken, hvars>>

\* the runtime carries out a requested abort: the task's future is dropped
\* at its next poll, and its listener with it
TaskCancel(t) ==
    /\ tasks[t].aborted
    /\ tasks[t].status \in {"spawned", "serving"}
    /\ tasks' = [tasks EXCEPT ![t].status = "cancelled"]
    /\ UNCHANGED <<listening, settings, store, server_task, mutex, pc, arg, local, ret, calls, taken, hvars>>

(***************************************************************************)
(* The tray menu (setup_tray's on_menu_event).                             *)
(***************************************************************************)
\* a stop action that also aborts the listener task
StopListeningAborts ==
    /\ listening' = FALSE
    /\ tasks' = IF server_task = 0 THEN tasks
                ELSE [tasks EXCEPT ![server_task].aborted = TRUE]
    /\ UNCHANGED <<settings, store, server_task, mutex, pc, arg, local, ret, calls, taken, hvars>>

\* "stop_listening" => listening.store(false, Ordering::SeqCst)
StopListening ==
    /\ listening' = FALSE
    /\ UNCHANGED <<lvars, hvars>>

\* "start_listening" => listening.store(true, Ordering::SeqCst)
StartListening ==
    /\ listening' = TRUE
    /\ UNCHANGED <<lvars, hvars>>

(***************************************************************************)
(* A request handler, as axum runs it for a connection of a listener.      *)
(***************************************************************************)
\* the route's handler past its gate check
Handle(req, shown, sound_disabled) ==
    IF req.route = "POST /agent/notify"
    THEN notify_handler(req.body, shown, sound_disabled)
    ELSE IF req.route = "POST /mcp"
    THEN mcp_post_handler(req.body, shown, sound_disabled)
    ELSE mcp_get_handler

\* a POST /mcp handler that acknowledges a body without "method" before it
\* loads the gate
HandlerRecvMethodFirst(R) ==
    /\ hpc = "idle"
    /\ Bound # {}
    /\ \E req \in R :
         /\ hreq' = req
         /\ IF req.route = "POST /mcp" /\ Get(req.body, "method") = None
            THEN /\ hresp' = Response(ACCEPTED, Empty)
                 /\ hpc' = "done"
                 /\ htrace' = <<IF listening THEN Ev("gate:open") ELSE Ev("gate:closed"),
                                Ev("method")>>
            ELSE /\ htrace' = <<IF listening THEN Ev("gate:open") ELSE Ev("gate:closed")>>
                 /\ IF ~listening
                    THEN /\ hresp' = NotListening
                         /\ hpc' = "done"
                    ELSE /\ hresp' = NoResponse
                         /\ hpc' = "run"
    /\ UNCHANGED <<listening, lvars, initialized>>

\* a request of R reaches its handler, whose first statement is
\* if !state.listening.load(Ordering::SeqCst) { return 503 }
HandlerRecv(R) ==
    /\ hpc = "idle"
    /\ Bound # {}
    /\ \E req \in R : hreq' = req
    /\ htrace' = <<IF listening THEN Ev("gate:open") ELSE Ev("gate:closed")>>
    /\ IF ~listening
       THEN /\ hresp' = NotListening
            /\ hpc' = "done"
       ELSE /\ hresp' = NoResponse
            /\ hpc' = "run"
    /\ UNCHANGED <<listening, lvars, initialized>>

\* a handler with a session: "tools/list" is refused until an "initialize"
\* request has got its result
HandlerRunSession ==
    /\ hpc = "run"
    /\ \E shown \in ShowOutcomes, sound_disabled \in BOOLEAN :
         LET o == Handle(hreq, shown, sound_disabled)
             refused == /\ ~initialized
                        /\ hreq.route = "POST /mcp"
                        /\ Get(hreq.body, "id") # None
                        /\ Get(hreq.body, "method") = JStr(Lit("tools/list"))
         IN  /\ hresp' = IF refused
                          THEN Response(OK, jsonrpc_error(Get(hreq.body, "id"), -32002,
                                                          "Server not initialized"))
                          ELSE o.resp
             /\ htrace' = htrace \o o.trace
    /\ hpc' = "done"
    /\ UNCHANGED <<listening, lvars, hreq, initialized>>

\* the rest of the handler, to its return
HandlerRun ==
    /\ hpc = "run"
    /\ \E shown \in ShowOutcomes, sound_disabled \in BOOLEAN :
         LET o == Handle(hreq, shown, sound_disabled)
         IN  /\ hresp' = o.resp
             /\ htrace' = htrace \o o.trace
    /\ hpc' = "done"
    /\ UNCHANGED <<listening, lvars, hreq, initialized>>

\* the closure play_notification_sound handed to spawn_blocking runs to its
\* end: the sound was played, or the audio output, the decoder or the sink
\* failed and the failure was only logged
SoundTask ==
    /\ hpc = "done"
    /\ \E i \in 1..Len(htrace) : htrace[i].ev = "sound"
    /\ \A i \in 1..Len(htrace) : htrace[i].ev \notin {"sound:played", "sound:failed"}
    /\ \E e \in {"sound:played", "sound:failed"} : htrace' = Append(htrace, Ev(e))
    /\ UNCHANGED <<listening, lvars, hpc, hreq, hresp, initialized>>

\* the response is the result of an "initialize" request
InitializeResult(req, resp) ==
    /\ req.route = "POST /mcp"
    /\ Get(req.body, "method") = JStr(Lit("initialize"))
    /\ resp.status = OK
    /\ "result" \in DOMAIN resp.body

\* the response is sent and the handler's task is over; nothing of the
\* request stays in AppState
HandlerReply ==
    /\ hpc = "done"
    /\ hpc' = "idle"
    /\ hreq' = NoRequest
    /\ hresp' = NoResponse
    /\ htrace' = <<>>
    /\ initialized' = (initialized \/ InitializeResult(hreq, hresp))
    /\ UNCHANGED <<listening, lvars>>

Next ==
    \/ \E p \in Callers : SaveCall(p)
    \/ \E p \in Callers : SaveWrite(p)
    \/ \E p \in Callers : PersistOk(p)
    \/ \E p \in Callers : PersistErr(p)
    \/ \E p \in Callers : RestartRead(p)
    \/ \E p \in Callers : RestartLock(p)
    \/ \E p \in Callers : RestartAbort(p)
    \/ \E p \in Callers : RestartSpawn(p)
    \/ \E p \in Callers : RestartReturn(p)
    \/ \E t \in TaskIds : BindOk(t)
    \/ \E t \in TaskIds : BindErr(t)
    \/ \E t \in TaskIds : ServeErr(t)
    \/ \E t \in TaskIds : TaskCancel(t)
    \/ StopListening
    \/ StartListening

\* the settings updates, the listener tasks and the gate
Spec == Init /\ [][Next]_vars

\* the handlers, the gate and the first listener
NextHttp ==
    \/ HandlerRecv(AllRequests)
    \/ HandlerRun
    \/ SoundTask
    \/ HandlerReply
    \/ StopListening
    \/ StartListening
    \/ \E t \in TaskIds : BindOk(t)
    \/ \E t \in TaskIds : BindErr(t)
    \/ \E t \in TaskIds : ServeErr(t)

SpecHttp == Init /\ [][NextHttp]_vars

\* one caller's settings updates, the listener tasks, the gate and a handler
NextGate ==
    \/ SaveCall("c1")
    \/ SaveWrite("c1")
    \/ PersistOk("c1")
    \/ PersistErr("c1")
    \/ RestartRead("c1")
    \/ RestartLock("c1")
    \/ RestartAbort("c1")
    \/ RestartSpawn("c1")
    \/ RestartReturn("c1")
    \/ \E t \in TaskIds : BindOk(t)
    \/ \E t \in TaskIds : BindErr(t)
    \/ \E t \in TaskIds : ServeErr(t)
    \/ \E t \in TaskIds : TaskCancel(t)
    \/ StopListening
    \/ StartListening
    \/ HandlerRecv(ProbeRequests)
    \/ HandlerRun
    \/ HandlerReply

SpecGate == Init /\ [][NextGate]_vars

(***************************************************************************)
(* Properties.                                                             *)
(***************************************************************************)
\* the gate value the handler found when the request reached it
GateClosedAtEntry == htrace # <<>> /\ htrace[1] = Ev("gate:closed")
GateOpenAtEntry == htrace # <<>> /\ htrace[1] = Ev("gate:open")

Shows == SelectSeq(htrace, LAMBDA e : e.ev = "show")
Validations == SelectSeq(htrace, LAMBDA e : e.ev = "validate")

\* the callers inside restart_http_server's critical section
InRestart == {p \in Callers : pc[p] \in {"abort", "spawn", "unlock"}}

\* C1: a request of any of the three routes that finds the gate closed is
\* answered 503, and its handler has done nothing but load the gate: no look
\* at "method", no field validation, no show().
C1_GateClosedIs503 ==
    GateClosedAtEntry =>
        /\ hpc = "done"
        /\ hresp.status = SERVICE_UNAVAILABLE
        /\ htrace = <<Ev("gate:closed")>>

\* C1 happens: a POST /mcp tools/call with valid arguments was answered 503
C1_Witness ==
    /\ hpc = "done"
    /\ GateClosedAtEntry
    /\ hreq.route = "POST /mcp"
    /\ Get(hreq.body, "method") = JStr(Lit("tools/call"))
    /\ hresp = NotListening

\* C3: restarts are serialized by the server_task mutex: at most one caller
\* is between lock and return and it holds the mutex; the slot holds one
\* handle, empty only between a restart's take and its store; every task
\* that is not in the slot has been aborted; and every spawn directly
\* follows its own restart's take (the task it replaces is the one spawned
\* just before it).
C3_RestartsSerialized ==
    /\ Cardinality(InRestart) <= 1
    /\ \A p \in InRestart : mutex = p
    /\ server_task \in 0..Len(tasks)
    /\ server_task = 0 <=> \E p \in Callers : pc[p] = "spawn"
    /\ \A t \in TaskIds : t # server_task => tasks[t].aborted
    /\ \A t \in TaskIds : tasks[t].prev = t - 1

\* C3 happens: one restart is between its abort and its spawn while the
\* other caller's restart waits for the mutex
C3_Witness ==
    \E p, q \in Callers : pc[p] = "spawn" /\ pc[q] = "lock"

\* C4: when a restart spawns the new task, every earlier task has already
\* been aborted, whatever the new bind will give; a task whose bind failed
\* stays ended and its failure spawns nothing (no retry); and whatever
\* listener is bound after a failed bind is either of a later restart or has
\* been aborted.
C4_Step ==
    /\ Len(tasks') > Len(tasks) =>
          /\ \A t \in TaskIds : tasks[t].aborted
          /\ \E p \in Callers : pc[p] = "spawn" /\ pc'[p] = "unlock"
    /\ \A t \in TaskIds :
          tasks[t].status = "bind_failed" =>
             /\ tasks'[t].status = "bind_failed"
             /\ \A u \in Bound : u > t \/ tasks[u].aborted
    /\ \A t \in TaskIds :
          (tasks[t].status = "spawned" /\ tasks'[t].status = "bind_failed") =>
             Len(tasks') = Len(tasks)

C4_AbortThenSpawnNoRetry == [][C4_Step]_vars

\* C4 happens: the second task's bind failed after the first, which was
\* serving, was aborted and cancelled: nothing is bound and nothing runs
C4_Witness ==
    /\ Len(tasks) = 2
    /\ tasks[2].status = "bind_failed"
    /\ tasks[1].status = "cancelled"
    /\ tasks[2].prevServing
    /\ \A p \in Callers : pc[p] = "idle"

\* C5 as claimed: after a bind failure the listener that was serving before
\* the attempt is still serving.
C5_PriorListenerStillServing ==
    \A t \in TaskIds :
        (tasks[t].status = "bind_failed" /\ tasks[t].prevServing) =>
            tasks[tasks[t].prev].status = "serving"

\* C5 as amended: a bind failure ends the attempt without retry and leaves
\* the settings, the persisted settings, the gate, the slot and every other
\* task as they were; a start attempt (no prior listener) so leaves the
\* service as it was, but a restart attempt has already aborted the
\* listener that was there before it.
C5_Step ==
    \A t \in TaskIds :
        (tasks[t].status = "spawned" /\ tasks'[t].status = "bind_failed") =>
            /\ UNCHANGED <<listening, settings, store, server_task, mutex, pc>>
            /\ Len(tasks') = Len(tasks)
            /\ \A u \in TaskIds : u # t => tasks'[u] = tasks[u]
            /\ tasks[t].prev # 0 => tasks[tasks[t].prev].aborted
            /\ tasks[t].prev = 0 => Bound' = Bound

C5_BindFailureAbandonsAttempt == [][C5_Step]_vars

\* C5 happens: a restart's bind failed and the listener that was serving
\* before it is gone
C5_Witness ==
    \E t \in TaskIds :
        /\ tasks[t].status = "bind_failed"
        /\ tasks[t].prevServing
        /\ tasks[tasks[t].prev].status = "cancelled"
        /\ Bound = {}

\* C7: when persist fails, the call returns Err without entering the
\* restart, and the step leaves the in-memory settings (no rollback), the
\* persisted value, the slot and the tasks as they were; a caller running
\* alone so leaves its new value in memory.
C7_Step ==
    \A p \in Callers :
        (pc[p] = "persist" /\ pc'[p] # "restart" /\ pc'[p] # "persist") =>
            /\ pc'[p] = "idle"
            /\ ret'[p] = "Err"
            /\ UNCHANGED <<settings, store, server_task, tasks, mutex>>
            /\ (\A q \in Callers \ {p} : pc[q] = "idle" /\ ret[q] = "none")
                  => settings' = arg[p]

C7_PersistFailureKeepsMemory == [][C7_Step]_vars

\* C7 happens: the only call made returned Err after its write: memory holds
\* the new value, the store does not, and the first listener is untouched
C7_Witness ==
    /\ calls = 1
    /\ \E p \in Callers : pc[p] = "idle" /\ ret[p] = "Err"
    /\ settings = BindingB
    /\ store # Stored(settings)
    /\ Len(tasks) = 1 /\ server_task = 1 /\ ~tasks[1].aborted

\* C8: a step that changes the gate changes nothing of the settings, the
\* store, the slot, the mutex or the tasks (so no step of a restart changes
\* the gate), and a handler that finds the gate closed answers 503 through
\* a listener that is still bound.
C8_Step ==
    /\ listening' # listening => UNCHANGED lvars
    /\ lvars' # lvars => listening' = listening
    /\ (hpc = "idle" /\ hpc' # "idle" /\ ~listening) =>
          /\ Bound # {}
          /\ hresp'.status = SERVICE_UNAVAILABLE

C8_GateOrthogonal == [][C8_Step]_vars

\* C8 happens: after a restart, with the gate closed, the new listener is
\* bound and a handler has answered 503
C8_Witness ==
    /\ ~listening
    /\ server_task = 2
    /\ tasks[2].status = "serving"
    /\ hpc = "done"
    /\ hresp.status = SERVICE_UNAVAILABLE

\* every call made so far has returned, each caller's latest one with Ok,
\* and the runtime has run every task up to its bind or its cancellation
UpdatesCompleted ==
    /\ \A p \in Callers : pc[p] = "idle" /\ ret[p] # "Err"
    /\ \E p \in Callers : ret[p] = "Ok"
    /\ \A t \in TaskIds : tasks[t].status # "spawned"
    /\ \A t \in TaskIds : tasks[t].aborted => tasks[t].status # "serving"

\* C2 as claimed, its final state: once the updates have completed, the
\* task in the slot, the only one that may be bound, was spawned with the
\* settings last written.  (Its other clause, that two listeners are never
\* bound at once, is Cardinality(Bound) <= 1.)
C2_FinalListenerOnLastSetting ==
    UpdatesCompleted =>
        /\ server_task # 0
        /\ tasks[server_task].binding = settings
        /\ Bound \subseteq {server_task}

\* C6 as claimed: no restart reads settings that the update that wrote them
\* is still persisting, the store not holding them yet.
C6_Step ==
    \A p \in Callers :
        (pc[p] = "restart" /\ pc'[p] = "lock") =>
            ~\E q \in Callers :
                pc[q] = "persist" /\ arg[q] = settings /\ store # Stored(settings)

C6_RestartReadsOnlyPersisted == [][C6_Step]_vars

\* a POST /mcp request that reaches the "tools/call" arm: a string method
\* "tools/call" and an id
IsToolsCall(req) ==
    /\ req.route = "POST /mcp"
    /\ Get(req.body, "id") # None
    /\ Get(req.body, "method") = JStr(Lit("tools/call"))

ToolParams == Get(hreq.body, "params")
ToolName == Get(ToolParams, "name")
ToolArguments == Get(ToolParams, "arguments")
\* title, content or agent of the arguments, missing or non-string as empty
ToolField(k) == StrOrDefault(Get(ToolArguments, k))

ValidatorFails ==
    \/ Trim(ToolField("title")) = <<>>
    \/ Trim(ToolField("content")) = <<>>
    \/ Trim(ToolField("agent")) = <<>>
    \/ Len(Trim(ToolField("content"))) > SOFT_CONTENT_LIMIT_CHARS

\* the checks of a tools/call in the order claimed, each with its error code
ToolChecks ==
    << [fails |-> ~IsObject(ToolParams), code |-> -32602],
       [fails |-> ~IsStr(ToolName), code |-> -32602],
       [fails |-> IsStr(ToolName) /\ ToolName.val # Lit("notify"), code |-> -32601],
       [fails |-> ~IsObject(ToolArguments), code |-> -32602],
       [fails |-> ValidatorFails, code |-> -32602],
       [fails |-> Len(Shows) > 0 /\ ~Shows[1].ok, code |-> -32000] >>

FailingChecks == {i \in 1..Len(ToolChecks) : ToolChecks[i].fails}
FirstFailing == CHOOSE i \in FailingChecks : \A j \in FailingChecks : i <= j

\* C9: a tools/call that found the gate open is answered 200 with the error
\* of the first failing check in the order params, name, tool, arguments,
\* Validator, Notifier, or else with the result "Notification sent: {title}"
\* and isError false; show() is called once when the first five checks
\* pass and never otherwise, and always after the validation.
C9_ToolsCallCheckOrder ==
    (hpc = "done" /\ GateOpenAtEntry /\ IsToolsCall(hreq)) =>
        /\ hresp.status = OK
        /\ hresp.body.id = Get(hreq.body, "id")
        /\ IF FailingChecks # {}
           THEN /\ "error" \in DOMAIN hresp.body
                /\ hresp.body.error.code = ToolChecks[FirstFailing].code
                /\ Len(Shows) = IF FirstFailing = 6 THEN 1 ELSE 0
           ELSE /\ "result" \in DOMAIN hresp.body
                /\ hresp.body.result.isError = FALSE
                /\ hresp.body.result.content[1].text
                     = Lit("Notification sent: ") \o Trim(ToolField("title"))
                /\ Len(Shows) = 1
        /\ Len(Shows) = 1 =>
              /\ Len(Validations) = 1
              /\ \E i, j \in 1..Len(htrace) :
                    i < j /\ htrace[i].ev = "validate" /\ htrace[j].ev = "show"

\* C9 happens: a call whose title needed trimming succeeded with the text
\* "Notification sent: T" after exactly one show()
C9_Witness ==
    /\ hpc = "done"
    /\ GateOpenAtEntry
    /\ IsToolsCall(hreq)
    /\ ToolField("title") = <<" ", "T", " ">>
    /\ "result" \in DOMAIN hresp.body
    /\ hresp.body.result.content[1].text = <<"Notification sent: ", "T">>
    /\ Len(Shows) = 1

\* C10: a tools/call that found the gate open and names a tool other than
\* "notify" is answered with error -32601 whatever its arguments are, and
\* neither the Validator nor the Notifier has run.
C10_UnknownToolIs32601 ==
    (/\ hpc = "done" /\ GateOpenAtEntry /\ IsToolsCall(hreq)
     /\ IsObject(ToolParams) /\ IsStr(ToolName) /\ ToolName.val # Lit("notify")) =>
        /\ hresp.status = OK
        /\ "error" \in DOMAIN hresp.body
        /\ hresp.body.error.code = -32601
        /\ htrace = <<Ev("gate:open"), Ev("method")>>

\* C10 happens: the tool "other" was called without any arguments and the
\* answer is -32601
C10_Witness ==
    /\ hpc = "done"
    /\ GateOpenAtEntry
    /\ IsToolsCall(hreq)
    /\ ToolName = JStr(Lit("other"))
    /\ ToolArguments = None
    /\ hresp.body.error.code = -32601

(***************************************************************************)
(* POST /mcp: notifications, requests and their envelopes.                 *)
(***************************************************************************)
\* the handler is done with a POST /mcp request that found the gate open
McpDone == hpc = "done" /\ hreq.route = "POST /mcp" /\ GateOpenAtEntry

ReqMethod == Get(hreq.body, "method")
ReqId == Get(hreq.body, "id")

\* C11: with the gate open, a POST /mcp body that has no "method", or has a
\* "method" (of any value) but no "id", is answered 202 with an empty body,
\* and the handler has done nothing for it but look at the two fields: no
\* validation, no call of the Notifier, no sound.
C11_NotificationIs202 ==
    (McpDone /\ (ReqMethod = None \/ ReqId = None))
        => /\ hresp = Response(ACCEPTED, Empty)
           /\ htrace = <<Ev("gate:open"), Ev("method")>>

\* a tools/call of notify without an id, whose arguments the Validator
\* would accept, was answered 202
C11_Witness ==
    /\ McpDone
    /\ ReqId = None
    /\ ReqMethod = JStr(Lit("tools/call"))
    /\ ToolName = JStr(Lit("notify"))
    /\ IsObject(ToolArguments)
    /\ ~ValidatorFails
    /\ hresp = Response(ACCEPTED, Empty)

\* C12 as stated: with the gate open, every POST /mcp body whose "method"
\* is present but not a string is answered 200 with the JSON-RPC error
\* -32600 and id null.
C12_NonStringMethodIs32600 ==
    (McpDone /\ ReqMethod # None /\ ~IsStr(ReqMethod))
        => hresp = Response(OK, [jsonrpc |-> "2.0", id |-> JNull,
                                 error |-> [code |-> -32600,
                                            message |-> "Invalid request: method must be a string"]])

\* C12, amended: the same for every such body that also has an "id"; the
\* id of the envelope is null whatever the id of the request.
C12_NonStringMethodWithIdIs32600 ==
    (McpDone /\ ReqMethod # None /\ ~IsStr(ReqMethod) /\ ReqId # None)
        => /\ hresp = Response(OK, [jsonrpc |-> "2.0", id |-> JNull,
                                    error |-> [code |-> -32600,
                                               message |-> "Invalid request: method must be a string"]])
           /\ htrace = <<Ev("gate:open"), Ev("method")>>

\* a body with a number as method and the id 1 was answered -32600 with
\* id null
C12_Witness ==
    /\ McpDone
    /\ ReqMethod = JNum(7)
    /\ ReqId = JNum(1)
    /\ hresp.status = OK
    /\ hresp.body.error.code = -32600
    /\ hresp.body.id = JNull

KnownMethods == {Lit("initialize"), Lit("tools/list"), Lit("tools/call")}

\* C13: with the gate open, a POST /mcp request that has an id and a string
\* method is answered 200 with a JSON-RPC 2.0 envelope whose id is the id of
\* the request, and which holds either a result or an error; a method other
\* than initialize, tools/list and tools/call gets the error -32601 "Method
\* not found"; and no POST /mcp answer that found the gate open has a status
\* other than 200 or 202, so an error envelope always travels with 200.
C13_RequestEnvelopeEchoesId ==
    /\ McpDone => hresp.status \in {OK, ACCEPTED}
    /\ (McpDone /\ ReqId # None /\ IsStr(ReqMethod))
         => /\ hresp.status = OK
            /\ hresp.body.jsonrpc = "2.0"
            /\ hresp.body.id = ReqId
            /\ \/ DOMAIN hresp.body = {"jsonrpc", "id", "result"}
               \/ DOMAIN hresp.body = {"jsonrpc", "id", "error"}
            /\ ReqMethod.val \notin KnownMethods
                 => hresp.body.error = [code |-> -32601, message |-> "Method not found"]

\* "ping" with the id 1 was answered 200 with -32601 and the id 1
C13_Witness ==
    /\ McpDone
    /\ ReqMethod = JStr(Lit("ping"))
    /\ ReqId = JNum(1)
    /\ hresp = Response(OK, [jsonrpc |-> "2.0", id |-> JNum(1),
                             error |-> [code |-> -32601, message |-> "Method not found"]])

(***************************************************************************)
(* POST /agent/notify.                                                     *)
(***************************************************************************)
\* the handler is done with a POST /agent/notify request
NotifyDone == hpc = "done" /\ hreq.route = "POST /agent/notify"

NotifyTitle == Trim(hreq.body.title)
NotifyContent == Trim(hreq.body.content)
NotifyAgent == Trim(hreq.body.agent)
NotifyFieldEmpty == NotifyTitle = <<>> \/ NotifyContent = <<>> \/ NotifyAgent = <<>>

\* "{agent}: {content}" of the trimmed fields, in full
NotifyFullBody == NotifyAgent \o <<":", " ">> \o NotifyContent

\* what C14 says of a request but for the body handed to show(): 503 behind
\* a closed gate, 400 and no show() for an empty field, else one show() with
\* the trimmed title, answered 200 if it succeeded and 500 if it failed
NotifyPipeline ==
    /\ GateClosedAtEntry => hresp = NotListening /\ htrace = <<Ev("gate:closed")>>
    /\ (GateOpenAtEntry /\ NotifyFieldEmpty)
         => /\ hresp.status = BAD_REQUEST
            /\ htrace = <<Ev("gate:open"), Ev("validate")>>
    /\ (GateOpenAtEntry /\ ~NotifyFieldEmpty)
         => /\ Len(htrace) >= 3
            /\ htrace[2] = Ev("validate")
            /\ htrace[3].ev = "show"
            /\ Len(Shows) = 1
            /\ Shows[1].title = NotifyTitle
            /\ Shows[1].ok
                 => hresp = Response(OK, Message("Notification dispatched"))
            /\ ~Shows[1].ok => hresp.status = INTERNAL_SERVER_ERROR

\* C14 as stated: POST /agent/notify checks the gate, then the emptiness of
\* the trimmed fields, then dispatches: 503, 400 without a show(), or one
\* show() with the trimmed title and the body "{agent}: {content}" whatever
\* the length of the content, answered 200 or 500.
C14_NotifyBodyInFull ==
    NotifyDone
        => /\ NotifyPipeline
           /\ (GateOpenAtEntry /\ ~NotifyFieldEmpty) => Shows[1].body = NotifyFullBody

\* C14, amended: the same, the body being the first 1000 characters of
\* "{agent}: {content}", which is all of it for a content of up to 997
\* characters and a one-character agent, hence no cap at 950.
C14_NotifyPipeline ==
    NotifyDone
        => /\ NotifyPipeline
           /\ (GateOpenAtEntry /\ ~NotifyFieldEmpty)
                => /\ Len(Shows[1].body) <= MAX_NOTIFICATION_BODY_CHARS
                   /\ Shows[1].body = SubSeq(NotifyFullBody, 1, Len(Shows[1].body))
                   /\ Len(NotifyFullBody) <= MAX_NOTIFICATION_BODY_CHARS
                        => Shows[1].body = NotifyFullBody
                   /\ Len(NotifyFullBody) > MAX_NOTIFICATION_BODY_CHARS
                        => Len(Shows[1].body) = MAX_NOTIFICATION_BODY_CHARS

\* a content of 951 characters, which the Validator refuses, was shown in
\* full with the trimmed title and answered 200
C14_Witness ==
    /\ NotifyDone
    /\ GateOpenAtEntry
    /\ hreq.body.title = <<" ", "T", " ">>
    /\ Len(NotifyContent) = SOFT_CONTENT_LIMIT_CHARS + 1
    /\ Len(Shows) = 1
    /\ Shows[1] = ShowEv(<<"T">>, NotifyFullBody, TRUE)
    /\ hresp = Response(OK, Message("Notification dispatched"))

(***************************************************************************)
(* A failing Notifier.                                                     *)
(***************************************************************************)
\* show() was called for the request and answered Err
ShowFailed == hpc = "done" /\ Len(Shows) = 1 /\ ~Shows[1].ok

\* the text written to the log for the request, <<>> if none
Logged ==
    LET l == SelectSeq(htrace, LAMBDA e : e.ev = "log")
    IN  IF l = <<>> THEN <<>> ELSE l[1].body

\* C15: when show() fails, the response is a value fixed by the route and
\* the id of the request alone, 500 with the message "Failed to dispatch
\* notification" on /agent/notify and the error -32000 with the same message
\* on /mcp: two requests that differ only in the error text of the Notifier
\* get the same response, and the text goes to the log only.
C15_FailureResponseIsGeneric ==
    ShowFailed
        => /\ hreq.route = "POST /agent/notify"
                => hresp = Response(INTERNAL_SERVER_ERROR,
                                    Message("Failed to dispatch notification"))
           /\ hreq.route = "POST /mcp"
                => hresp = Response(OK, [jsonrpc |-> "2.0", id |-> ReqId,
                                         error |-> [code |-> -32000,
                                                    message |-> "Failed to dispatch notification"]])
           /\ hreq.route # "GET /mcp"

\* show() failed with "denied" on /agent/notify: the text is in the log and
\* the response is the generic 500
C15_Witness ==
    /\ ShowFailed
    /\ hreq.route = "POST /agent/notify"
    /\ Logged = Lit("Failed to dispatch notification: ") \o Lit("denied")
    /\ hresp = Response(INTERNAL_SERVER_ERROR, Message("Failed to dispatch notification"))

(***************************************************************************)
(* The Validator and the Dispatcher.                                       *)
(***************************************************************************)
\* a tools/call got as far as validate_notification_fields
ValidateReached == hpc = "done" /\ IsToolsCall(hreq) /\ Validations # <<>>

\* what validate_notification_fields gives for the arguments of the request
Validated ==
    validate_notification_fields(ToolField("title"), ToolField("content"),
                                 ToolField("agent"))

\* s is empty or holds whitespace only
AllWs(s) == \A i \in DOMAIN s : IsWs(s[i])

\* r is s without its leading and trailing whitespace
IsTrimOf(r, s) ==
    /\ Len(r) <= Len(s)
    /\ \/ r = <<>>
       \/ ~IsWs(r[1]) /\ ~IsWs(r[Len(r)])
    /\ \E i \in 0..(Len(s) - Len(r)) :
         /\ r = SubSeq(s, i + 1, i + Len(r))
         /\ AllWs(SubSeq(s, 1, i))
         /\ AllWs(SubSeq(s, i + Len(r) + 1, Len(s)))

\* C16: validate fails (with the "required" message) whenever the title, the
\* content or the agent is empty or whitespace-only; when it succeeds, the
\* fields it returns are the inputs without their leading and trailing
\* whitespace, none of them empty, and they are what the handler passes on:
\* the title and the body "{agent}: {content}" of the one show() call.
C16_ValidateTrimsAndRequires ==
    ValidateReached
        => /\ (\E k \in {"title", "content", "agent"} : AllWs(ToolField(k)))
                => /\ ~Validated.ok
                   /\ Validated.err = "required"
                   /\ Shows = <<>>
                   /\ hresp.body.error.code = -32602
           /\ Validated.ok
                => /\ IsTrimOf(Validated.title, ToolField("title"))
                   /\ IsTrimOf(Validated.content, ToolField("content"))
                   /\ IsTrimOf(Validated.agent, ToolField("agent"))
                   /\ Validated.title # <<>>
                   /\ Validated.content # <<>>
                   /\ Validated.agent # <<>>
                   /\ Len(Shows) = 1
                   /\ Shows[1].title = Validated.title
                   /\ Shows[1].body = Validated.agent \o <<":", " ">> \o Validated.content
           /\ ~Validated.ok => Shows = <<>>

\* the title " T ", the content "C " and the agent " A" were accepted and
\* shown as "T" and "A: C"
C16_Witness ==
    /\ ValidateReached
    /\ ToolField("title") = <<" ", "T", " ">>
    /\ ToolField("content") = <<"C", " ">>
    /\ ToolField("agent") = <<" ", "A">>
    /\ Shows = <<ShowEv(<<"T">>, <<"A", ":", " ", "C">>, TRUE)>>

\* the title and the agent of the request are not empty after the trim
TitleAndAgentGiven == ~AllWs(ToolField("title")) /\ ~AllWs(ToolField("agent"))

\* C17 as stated: validate fails for every content of more than 950
\* characters and succeeds for a content of exactly 950 characters (title and
\* agent given).
C17_ContentOver950Fails ==
    ValidateReached
        => /\ Len(ToolField("content")) > SOFT_CONTENT_LIMIT_CHARS => ~Validated.ok
           /\ (Len(ToolField("content")) = SOFT_CONTENT_LIMIT_CHARS /\ TitleAndAgentGiven)
                => Validated.ok

\* C17, amended: the count is that of the content after the trim.  validate
\* fails, and no show() follows, when the trimmed content has more than 950
\* characters; with title and agent given it succeeds when the trimmed
\* content has 1 to 950 characters, however many bytes they take.
C17_TrimmedContentLimit ==
    ValidateReached
        => /\ Len(Trim(ToolField("content"))) > SOFT_CONTENT_LIMIT_CHARS
                => /\ ~Validated.ok
                   /\ Shows = <<>>
                   /\ hresp.body.error.code = -32602
           /\ (Len(Trim(ToolField("content"))) \in 1..SOFT_CONTENT_LIMIT_CHARS
               /\ TitleAndAgentGiven)
                => /\ Validated.ok
                   /\ Len(Shows) = 1

\* a content of 950 characters that take 2850 bytes was accepted and shown
C17_Witness ==
    /\ ValidateReached
    /\ Len(ToolField("content")) = SOFT_CONTENT_LIMIT_CHARS
    /\ ByteLen(ToolField("content")) > SOFT_CONTENT_LIMIT_CHARS
    /\ Validated.ok
    /\ Len(Shows) = 1

\* the agent and the content a handler passes to dispatch_notification
DispatchedAgent ==
    IF hreq.route = "POST /agent/notify" THEN NotifyAgent ELSE Validated.agent
DispatchedContent ==
    IF hreq.route = "POST /agent/notify" THEN NotifyContent ELSE Validated.content

\* "{agent}: {content}" before the cut
UntruncatedBody == DispatchedAgent \o <<":", " ">> \o DispatchedContent

Min(a, b) == IF a <= b THEN a ELSE b

\* C18: the body dispatch hands to show() has min(len("{agent}: {content}"),
\* 1000) characters, counted as characters whatever bytes they take, and is
\* a prefix of "{agent}: {content}": it never has more than 1000.
C18_BodyIsPrefixOfAtMost1000 ==
    (hpc = "done" /\ Shows # <<>>)
        => LET body == Shows[1].body
               full == UntruncatedBody
           IN  /\ Len(body) = Min(Len(full), MAX_NOTIFICATION_BODY_CHARS)
               /\ Len(body) <= MAX_NOTIFICATION_BODY_CHARS
               /\ \A i \in 1..Len(body) : body[i] = full[i]

\* a body of 1003 characters of which 1000 take three bytes each was cut to
\* its first 1000 characters, which take more than 1000 bytes
C18_Witness ==
    /\ hpc = "done"
    /\ Len(Shows) = 1
    /\ Len(UntruncatedBody) = MAX_NOTIFICATION_BODY_CHARS + 3
    /\ Len(Shows[1].body) = MAX_NOTIFICATION_BODY_CHARS
    /\ ByteLen(Shows[1].body) > MAX_NOTIFICATION_BODY_CHARS

\* the positions of the events e in the trace of the request
At(e) == {i \in 1..Len(htrace) : htrace[i].ev = e}

\* the answer of the route to a dispatch that succeeded
DispatchSucceeded ==
    IF hreq.route = "POST /agent/notify"
    THEN hresp = Response(OK, Message("Notification dispatched"))
    ELSE /\ hresp.status = OK
         /\ "result" \in DOMAIN hresp.body
         /\ hresp.body.result.isError = FALSE

\* the answer of the route to a dispatch that failed
DispatchFailed ==
    IF hreq.route = "POST /agent/notify"
    THEN hresp.status = INTERNAL_SERVER_ERROR
    ELSE /\ "error" \in DOMAIN hresp.body
         /\ hresp.body.error.code = -32000

\* C19: a sound task is scheduled at most once and only after a show() that
\* answered Ok; after a show() that failed the dispatch fails and no sound is
\* scheduled; after a show() that answered Ok the dispatch succeeds, and the
\* response is there while the playback is still pending and stays the same
\* once it has played or failed.
C19_ShowThenSound ==
    /\ Cardinality(At("sound")) <= 1
    /\ \A i \in At("sound") : \E j \in At("show") : j < i /\ htrace[j].ok
    /\ \A i \in At("sound:played") \cup At("sound:failed") :
         \E j \in At("sound") : j < i
    /\ (hpc = "done" /\ Shows # <<>> /\ ~Shows[1].ok)
         => DispatchFailed /\ At("sound") = {}
    /\ (hpc = "done" /\ Shows # <<>> /\ Shows[1].ok) => DispatchSucceeded

\* the playback failed after a show() that answered Ok, and the response
\* is the success
C19_Witness ==
    /\ hpc = "done"
    /\ Len(Shows) = 1
    /\ Shows[1].ok
    /\ At("sound:failed") # {}
    /\ DispatchSucceeded

(***************************************************************************)
(* The ListenBinding in memory.                                            *)
(***************************************************************************)
\* C20: in every reachable state the settings in memory have a non-empty
\* address and a non-zero port, whether they were loaded from the store at
\* startup or written by save_http_bindings.
C20_BindingInMemoryIsValid ==
    /\ settings.bind_address # <<>>
    /\ settings.port # 0

(***************************************************************************)
(* The Protocol Engine keeps nothing between requests.                     *)
(***************************************************************************)
\* C21: the answer to a POST /mcp request does not depend on the requests
\* answered before it.  Whether or not an "initialize" request was answered
\* earlier, with the gate open an "initialize" request with an id gets the
\* result with the fixed protocol version and listChanged false, and a
\* "tools/list" request with an id gets the result with exactly one tool,
\* named notify, and nextCursor null.
C21_EngineIsStateless ==
    (McpDone /\ ReqId # None)
        => /\ ReqMethod = JStr(Lit("initialize"))
                => /\ hresp.status = OK
                   /\ DOMAIN hresp.body = {"jsonrpc", "id", "result"}
                   /\ hresp.body.id = ReqId
                   /\ hresp.body.result.protocolVersion = <<"2025-11-25">>
                   /\ hresp.body.result.capabilities.tools.listChanged = FALSE
                   /\ htrace = <<Ev("gate:open"), Ev("method")>>
           /\ ReqMethod = JStr(Lit("tools/list"))
                => /\ hresp.status = OK
                   /\ DOMAIN hresp.body = {"jsonrpc", "id", "result"}
                   /\ hresp.body.id = ReqId
                   /\ Len(hresp.body.result.tools) = 1
                   /\ hresp.body.result.tools[1].name = "notify"
                   /\ hresp.body.result.nextCursor = JNull
                   /\ htrace = <<Ev("gate:open"), Ev("method")>>

\* after an "initialize" request was answered, a second one got the same
\* protocol version and listChanged false
C21_Witness ==
    /\ McpDone
    /\ initialized
    /\ ReqId = JNum(1)
    /\ ReqMethod = JStr(Lit("initialize"))
    /\ hresp.status = OK
    /\ hresp.body.result.protocolVersion = <<"2025-11-25">>
    /\ hresp.body.result.capabilities.tools.listChanged = FALSE

(***************************************************************************)
(* Disk, memory and listener after concurrent updates.                     *)
(***************************************************************************)
\* every caller has called save_http_bindings and is back with Ok
AllSavesOk == \A p \in Callers : pc[p] = "idle" /\ ret[p] = "Ok"

\* C22: once the concurrent save_http_bindings calls have all returned Ok,
\* the store, the settings in memory and the binding the most recently
\* spawned listener was given are one and the same value.
C22_DiskMemoryListenerAgree ==
    AllSavesOk
        => /\ store = Stored(settings)
           /\ tasks[Len(tasks)].binding = settings

(***************************************************************************)
(* The gate and the Notifier.                                              *)
(***************************************************************************)
\* a step in which a handler calls show() is taken with the gate open
C23_Step == Len(Shows') > Len(Shows) => listening

\* C23: show() is never called at a moment when the gate is closed, not
\* even by a handler that read the gate as open before the stop-listening
\* action stored false.
C23_NoShowWhileGateClosed == [][C23_Step]_vars

=============================================================================
